---- MODULE Spec2Model ----
(***************************************************************************)
(* Model of the weather bot (src/main.py): module-level configuration      *)
(* check, start-up of the Telegram application and of the scheduler in     *)
(* main(), the scheduled job send_weather_update, the /start and /weather  *)
(* command handlers, and the interrupt path of main().                     *)
(*                                                                         *)
(* Message texts are sequences of fragments whose concatenation is the     *)
(* text; the Russian literals of the source are transliterated to ASCII.   *)
(***************************************************************************)
EXTENDS Integers, Sequences, FiniteSets, TLC

\* ---------------------------------------------------------------- bounds
MaxTriggers == 2     \* 08:00 triggers observed in one run of the process
MaxCommands == 2     \* user commands observed in one run of the process
MaxMissing  == 1     \* required fields a 2xx JSON body may lack (besides the empty body)
MaxReg      == 3     \* registrations of the daily job (SpecReg only)

\* ------------------------------------------------------- configuration
\* os.getenv gives None for an unset variable, otherwise its string.
Absent == "<None>"
EnvValues == {Absent, "", "value"}
RequiredKeys == {"TELEGRAM_BOT_TOKEN", "TELEGRAM_CHAT_ID", "OPENWEATHER_API_KEY"}

\* Python truth value of an os.getenv result.
NotSet(v) == v = Absent \/ v = ""

\* Mutant of ConfigError: the check of OPENWEATHER_API_KEY is forgotten.
ConfigErrorNoApiKeyCheck(e) ==
    IF NotSet(e["TELEGRAM_BOT_TOKEN"]) THEN "TELEGRAM_BOT_TOKEN"
    ELSE IF NotSet(e["TELEGRAM_CHAT_ID"]) THEN "TELEGRAM_CHAT_ID"
    ELSE "none"

\* The three `if not X: raise ValueError` tests, in order; "none" when all pass.
ConfigError(e) ==
    IF NotSet(e["TELEGRAM_BOT_TOKEN"]) THEN "TELEGRAM_BOT_TOKEN"
    ELSE IF NotSet(e["TELEGRAM_CHAT_ID"]) THEN "TELEGRAM_CHAT_ID"
    ELSE IF NotSet(e["OPENWEATHER_API_KEY"]) THEN "OPENWEATHER_API_KEY"
    ELSE "none"

\* ------------------------------------------------------- weather data
\* The leaves of the provider's JSON that format_weather_message reads,
\* in the order it reads them.
FieldOrder == <<"name", "temp", "feels_like", "description", "humidity", "wind_speed">>
Required == {FieldOrder[i] : i \in 1..Len(FieldOrder)}

\* A 2xx JSON body is the set of required leaves it contains.
Bodies == {Required \ S : S \in {T \in SUBSET Required : Cardinality(T) <= MaxMissing}} \cup {{}}

\* What requests.get + raise_for_status can produce.
ErrorKinds == {"ConnectionError", "Timeout", "HTTPError"}
Responses == {[kind |-> k, body |-> {}] : k \in ErrorKinds}
             \cup {[kind |-> "ok", body |-> b] : b \in Bodies}

\* Python None / a dict, as the value get_weather returns.
NoneData == [none |-> TRUE, body |-> {}]
Dict(b) == [none |-> FALSE, body |-> b]

\* `not weather_data`: None and the empty dict are false.
Falsy(d) == d.none \/ d.body = {}

\* get_weather: any RequestException gives None, a 2xx gives response.json().
get_weather(resp) ==
    IF resp.kind = "ok" THEN Dict(resp.body) ELSE NoneData

\* ------------------------------------------------------------- texts
\* The literal format_weather_message returns when weather_data is false.
NoDataText == <<"X Ne udalos' poluchit' dannye o pogode.">>

\* Mutant of CommandNoDataText: the command reuses the formatter's string.
CommandNoDataTextOfFormatter == <<"X Ne udalos' poluchit' dannye o pogode.">>

\* The literal weather_handler replies with when weather_data is false.
CommandNoDataText == <<"X Ne udalos' poluchit' dannye o pogode.", " Poprobujte pozzhe.">>
ErrorText(e) == <<"X Proizoshla oshibka: ", e>>
WelcomeText == <<"Dobro pozhalovat' v Pogodnyj Bot!", "/start", "/weather", "08:00">>

\* First required leaf, in reading order, the dict lacks (0 when none).
FirstMissing(b) ==
    IF Required \subseteq b THEN 0
    ELSE CHOOSE i \in 1..Len(FieldOrder) :
            /\ FieldOrder[i] \notin b
            /\ \A j \in 1..(i-1) : FieldOrder[j] \in b

ReportText(b) ==
    <<"Prognoz pogody dlya goroda {name}", "Temperatura: {round(temp)}C",
      "Oshchushchaetsya kak: {round(feels_like)}C", "Opisanie: {description.capitalize()}",
      "Vlazhnost': {humidity}%", "Skorost' vetra: {wind_speed} m/s",
      "Data: {dd.mm.YYYY}", "Vremya: {HH:MM}">>

\* format_weather_message: exc names the exception it raises ("none": returns text).
format_weather_message(d) ==
    IF Falsy(d) THEN [exc |-> "none", text |-> NoDataText]
    ELSE IF FirstMissing(d.body) # 0
         THEN [exc |-> "KeyError", text |-> <<FieldOrder[FirstMissing(d.body)]>>]
         ELSE [exc |-> "none", text |-> ReportText(d.body)]

\* ------------------------------------------------------------- state
VARIABLES
    env,          \* the three required environment variables
    pc,           \* position of the main thread
    exitStatus,   \* process exit status, -1 while the process runs
    appBuilt,     \* Application.builder().token(..).build() has run
    handlers,     \* commands registered with the application
    held,         \* resources acquired and not yet released
    released,     \* releases performed, in order
    netActivity,  \* some network call (get_me, polling, fetch, send, reply) was made
    schedState,   \* "none", "stopped", "running", "shutdown"
    jobs,         \* the scheduler's jobs
    regs,         \* add_job calls made
    triggers,     \* 08:00 triggers so far
    lastRuns,     \* the job runs of the latest trigger, one per job
    regsAtRun,    \* add_job calls made before the latest trigger
    commands,     \* user commands handled so far
    lastCmd,      \* outcome of the latest command
    signal        \* how an interrupt reached main ("none": no signal)

vars == <<env, pc, exitStatus, appBuilt, handlers, held, released, netActivity,
          schedState, jobs, regs, triggers, lastRuns, regsAtRun, commands, lastCmd,
          signal>>

NoCmd == [cmd |-> "none", resp |-> [kind |-> "none", body |-> {}], ret |-> NoneData,
          fetches |-> 0, replies |-> <<>>, escaped |-> "none"]

Init ==
    /\ env \in [RequiredKeys -> EnvValues]
    /\ pc = "boot"
    /\ exitStatus = -1
    /\ appBuilt = FALSE
    /\ handlers = {}
    /\ held = {}
    /\ released = <<>>
    /\ netActivity = FALSE
    /\ schedState = "none"
    /\ jobs = <<>>
    /\ regs = 0
    /\ triggers = 0
    /\ lastRuns = <<>>
    /\ regsAtRun = 0
    /\ commands = 0
    /\ lastCmd = NoCmd
    /\ signal = "none"

\* --------------------------------------------------- the scheduled job
SendOutcomes == {"ok", "TelegramError"}

\* send_weather_update on one provider response and one outcome of
\* bot.send_message.  get_weather and format_weather_message run outside the
\* try block, so an exception of the formatter leaves the job before the send;
\* a TelegramError of the send is caught and printed.
send_weather_update(resp, sendOut) ==
    LET data == get_weather(resp)
        m    == format_weather_message(data)
    IN  IF m.exc # "none"
        THEN [resp |-> resp, ret |-> data, fetches |-> 1, sends |-> 0,
              text |-> <<>>, delivered |-> FALSE, escaped |-> m.exc]
        ELSE [resp |-> resp, ret |-> data, fetches |-> 1, sends |-> 1,
              text |-> m.text, delivered |-> (sendOut = "ok"), escaped |-> "none"]

\* ------------------------------------------------------ command handlers
ReplyOutcomes == {"ok", "TelegramError"}

\* The except branch of weather_handler: one reply with the error text, not
\* guarded itself, so its own failure leaves the handler.
ErrorReply(first, e, r2) ==
    [replies |-> first \o <<[text |-> ErrorText(e), ok |-> (r2 = "ok")]>>,
     escaped |-> IF r2 = "ok" THEN "none" ELSE r2]

\* One reply_text inside the try block, with outcome r1; r2 is the outcome of
\* the reply of the except branch, when that branch runs.
TryReply(text, r1, r2) ==
    IF r1 = "ok"
    THEN [replies |-> <<[text |-> text, ok |-> TRUE]>>, escaped |-> "none"]
    ELSE ErrorReply(<<[text |-> text, ok |-> FALSE]>>, r1, r2)

weather_handler(resp, r1, r2) ==
    LET data == get_weather(resp)
        m    == format_weather_message(data)
        out  == IF ~Falsy(data)
                THEN IF m.exc # "none"
                     THEN ErrorReply(<<>>, m.text[1], r2)
                     ELSE TryReply(m.text, r1, r2)
                ELSE TryReply(CommandNoDataText, r1, r2)
    IN  [cmd |-> "weather", resp |-> resp, ret |-> data, fetches |-> 1,
         replies |-> out.replies, escaped |-> out.escaped]

\* start_handler: a single unguarded reply.
start_handler(r1) ==
    [cmd |-> "start", resp |-> [kind |-> "none", body |-> {}], ret |-> NoneData,
     fetches |-> 0, replies |-> <<[text |-> WelcomeText, ok |-> (r1 = "ok")]>>,
     escaped |-> IF r1 = "ok" THEN "none" ELSE r1]

\* ------------------------------------------------------------- scheduler
JobId == "weather_update"
DailyJob == [id |-> JobId, func |-> "send_weather_update", hour |-> 8, minute |-> 0]

\* Mutant of add_job: the job is added without replacing the one of the same id.
add_job_no_replace(js, job) == Append(js, job)

\* scheduler.add_job(..., id=..., replace_existing=True): a job of the same
\* id is replaced, otherwise the job is added.
add_job(js, job) ==
    IF \E i \in 1..Len(js) : js[i].id = job.id
    THEN [i \in 1..Len(js) |-> IF js[i].id = job.id THEN job ELSE js[i]]
    ELSE Append(js, job)

\* Mutant of JobsAfterRun: a job that raised is dropped.
JobsAfterRunDropFailed(js, runs) ==
    IF \E i \in 1..Len(runs) : runs[i].escaped # "none" THEN <<>> ELSE js

\* Neither send_weather_update nor main touches the scheduler when a run
\* ends, whatever its outcome: the jobs are those before the run.
JobsAfterRun(js, runs) == js

\* --------------------------------------------------------------- actions
\* Lines 23-28: abort with ValueError (uncaught: status 1) on a missing value.
ValidateConfig ==
    /\ pc = "boot"
    /\ IF ConfigError(env) # "none"
       THEN pc' = "aborted" /\ exitStatus' = 1
       ELSE pc' = "validated" /\ UNCHANGED exitStatus
    /\ UNCHANGED <<env, appBuilt, handlers, held, released, netActivity, schedState,
                   jobs, regs, triggers, lastRuns, regsAtRun, commands, lastCmd, signal>>

\* Line 31.
BuildApplication ==
    /\ pc = "validated"
    /\ appBuilt' = TRUE
    /\ pc' = "built"
    /\ UNCHANGED <<env, exitStatus, handlers, held, released, netActivity, schedState,
                   jobs, regs, triggers, lastRuns, regsAtRun, commands, lastCmd, signal>>

\* Lines 140-141.
RegisterHandlers ==
    /\ pc = "built"
    /\ handlers' = {"start", "weather"}
    /\ pc' = "registered"
    /\ UNCHANGED <<env, exitStatus, appBuilt, held, released, netActivity, schedState,
                   jobs, regs, triggers, lastRuns, regsAtRun, commands, lastCmd, signal>>

\* A start-up await of main, outside any try: on failure the exception leaves
\* main and asyncio.run, and the process ends with status 1.
StartupStep(from, to, resource, usesNet) ==
    /\ pc = from
    /\ netActivity' = (netActivity \/ usesNet)
    /\ \E outcome \in {"ok", "raise"} :
          IF outcome = "ok"
          THEN held' = held \cup {resource} /\ pc' = to /\ UNCHANGED exitStatus
          ELSE pc' = "exited" /\ exitStatus' = 1 /\ UNCHANGED held
    /\ UNCHANGED <<env, appBuilt, handlers, released, schedState,
                   jobs, regs, triggers, lastRuns, regsAtRun, commands, lastCmd, signal>>

\* Line 144 (contacts the provider: get_me).
AppInitialize == StartupStep("registered", "initialized", "application", TRUE)

\* Line 145.
AppStart == StartupStep("initialized", "started", "app_running", FALSE)

\* Line 146.
StartPolling == StartupStep("started", "polling", "updater", TRUE)

\* Lines 149-156: create the scheduler and register the daily job.
RegisterJob ==
    /\ pc = "polling"
    /\ schedState' = "stopped"
    /\ jobs' = add_job(jobs, DailyJob)
    /\ regs' = regs + 1
    /\ pc' = "job_added"
    /\ UNCHANGED <<env, exitStatus, appBuilt, handlers, held, released, netActivity,
                   triggers, lastRuns, regsAtRun, commands, lastCmd, signal>>

\* Line 157, then main enters its wait loop (lines 163-166).
SchedulerStart ==
    /\ pc = "job_added"
    /\ schedState' = "running"
    /\ held' = held \cup {"scheduler"}
    /\ pc' = "waiting"
    /\ UNCHANGED <<env, exitStatus, appBuilt, handlers, released, netActivity,
                   jobs, regs, triggers, lastRuns, regsAtRun, commands, lastCmd, signal>>

\* The 08:00 trigger: the running scheduler runs every registered job once.
TriggerJob ==
    /\ pc = "waiting"
    /\ schedState = "running"
    /\ Len(jobs) > 0
    /\ triggers < MaxTriggers
    /\ \E outs \in [1..Len(jobs) -> Responses \X SendOutcomes] :
          /\ lastRuns' = [i \in 1..Len(jobs) |-> send_weather_update(outs[i][1], outs[i][2])]
          /\ jobs' = JobsAfterRun(jobs, lastRuns')
    /\ triggers' = triggers + 1
    /\ regsAtRun' = regs
    /\ netActivity' = TRUE
    /\ UNCHANGED <<env, pc, exitStatus, appBuilt, handlers, held, released,
                   schedState, regs, commands, lastCmd, signal>>

\* A /weather message reaches the polling listener.
WeatherCommand ==
    /\ pc = "waiting"
    /\ "updater" \in held
    /\ "weather" \in handlers
    /\ commands < MaxCommands
    /\ \E resp \in Responses, r1 \in ReplyOutcomes, r2 \in ReplyOutcomes :
          lastCmd' = weather_handler(resp, r1, r2)
    /\ commands' = commands + 1
    /\ netActivity' = TRUE
    /\ UNCHANGED <<env, pc, exitStatus, appBuilt, handlers, held, released,
                   schedState, jobs, regs, triggers, lastRuns, regsAtRun, signal>>

\* A /start message reaches the polling listener.
StartCommand ==
    /\ pc = "waiting"
    /\ "updater" \in held
    /\ "start" \in handlers
    /\ commands < MaxCommands
    /\ \E r1 \in ReplyOutcomes : lastCmd' = start_handler(r1)
    /\ commands' = commands + 1
    /\ netActivity' = TRUE
    /\ UNCHANGED <<env, pc, exitStatus, appBuilt, handlers, held, released,
                   schedState, jobs, regs, triggers, lastRuns, regsAtRun, signal>>

\* How a signal reaches main while it awaits asyncio.sleep(1) under
\* asyncio.run (lines 163-176):
\*   "KeyboardInterrupt"  raised inside main's try block and caught at line 167;
\*   "CancelledError"     SIGINT cancels the main task (or KeyboardInterrupt is
\*                        raised in the event loop and main is cancelled on the
\*                        way out): the except clause does not match, and
\*                        asyncio.run ends with KeyboardInterrupt;
\*   "SIGTERM"            no handler is installed: the process is killed.
Deliveries == {"KeyboardInterrupt", "CancelledError", "SIGTERM"}

ShutdownOrder == <<"scheduler", "updater", "app_running", "application">>

Interrupt ==
    /\ pc = "waiting"
    /\ \E d \in Deliveries :
          /\ signal' = d
          /\ IF d = "KeyboardInterrupt"
             THEN /\ schedState' = "shutdown"
                  /\ released' = ShutdownOrder
                  /\ held' = held \ {ShutdownOrder[i] : i \in 1..Len(ShutdownOrder)}
                  /\ exitStatus' = 0
             ELSE /\ exitStatus' = (IF d = "CancelledError" THEN 130 ELSE 143)
                  /\ UNCHANGED <<schedState, released, held>>
    /\ pc' = "exited"
    /\ UNCHANGED <<env, appBuilt, handlers, netActivity, jobs, regs,
                   triggers, lastRuns, regsAtRun, commands, lastCmd>>

Next ==
    \/ ValidateConfig
    \/ BuildApplication
    \/ RegisterHandlers
    \/ AppInitialize
    \/ AppStart
    \/ StartPolling
    \/ RegisterJob
    \/ SchedulerStart
    \/ TriggerJob
    \/ WeatherCommand
    \/ StartCommand
    \/ Interrupt

Spec == Init /\ [][Next]_vars

\* The daily job is registered again, under the same identifier, at any time
\* after its first registration.
RegisterJobAgain ==
    /\ pc \in {"job_added", "waiting"}
    /\ regs < MaxReg
    /\ jobs' = add_job(jobs, DailyJob)
    /\ regs' = regs + 1
    /\ UNCHANGED <<env, pc, exitStatus, appBuilt, handlers, held, released, netActivity,
                   schedState, triggers, lastRuns, regsAtRun, commands, lastCmd, signal>>

NextReg == Next \/ RegisterJobAgain

SpecReg == Init /\ [][NextReg]_vars

\* ---------------------------------------------------------------- claims
\* Every get_weather call observed in the latest trigger or command.
Fetched ==
    {[resp |-> lastRuns[i].resp, ret |-> lastRuns[i].ret] : i \in 1..Len(lastRuns)}
    \cup (IF lastCmd.cmd = "weather"
          THEN {[resp |-> lastCmd.resp, ret |-> lastCmd.ret]} ELSE {})

AllFields == {"name", "temp", "feels_like", "description", "humidity", "wind_speed"}

\* C1: get_weather returns the no-data value for every failing provider
\* outcome: network error, timeout, error status, and a 2xx body lacking a
\* required field; the caller never receives a partial report.
C1_FailureIsNoData ==
    \A f \in Fetched :
        (f.resp.kind # "ok" \/ ~(AllFields \subseteq f.resp.body)) => f.ret.none

\* C2: no failure while handling /weather (fetch, formatter, reply) leaves
\* weather_handler, and the listener goes on handling commands.
C2_NothingLeavesWeatherHandler ==
    /\ lastCmd.cmd = "weather" => lastCmd.escaped = "none"
    /\ pc = "waiting" => "updater" \in held

\* C3: while main waits with the scheduler running, after any number of
\* triggers with any outcomes the scheduler is still running and the daily job
\* is still registered, so the next trigger fires it again.
C3_SchedulerSurvivesJobs ==
    pc = "waiting" =>
        /\ schedState = "running"
        /\ \E i \in 1..Len(jobs) : jobs[i].id = "weather_update"
        /\ triggers < MaxTriggers => ENABLED TriggerJob

C3_Witness ==
    /\ pc = "waiting"
    /\ triggers >= 2
    /\ \E i \in 1..Len(lastRuns) : lastRuns[i].escaped = "KeyError"

\* C4: a signal that arrives while main is in its wait loop ends the process
\* with the scheduler stopped, then the listener, then the messaging client
\* released, and status 0.
C4_InterruptExitsCleanly ==
    (pc = "exited" /\ signal # "none") =>
        /\ exitStatus = 0
        /\ schedState = "shutdown"
        /\ released = <<"scheduler", "updater", "app_running", "application">>

\* C5: on every exit path of main, nothing acquired is still held when the
\* process has ended.
C5_NothingHeldAtExit ==
    pc \in {"exited", "aborted"} => held = {}

\* C6: with a required configuration value missing the process aborts before
\* the messaging client is built and before any network call.
C6_NoActivityWithoutConfig ==
    (\E k \in RequiredKeys : env[k] = "<None>" \/ env[k] = "") =>
        /\ ~appBuilt
        /\ ~netActivity
        /\ pc \in {"boot", "aborted"}
        /\ pc = "aborted" => exitStatus = 1

C6_Witness ==
    /\ env["OPENWEATHER_API_KEY"] = "<None>"
    /\ env["TELEGRAM_BOT_TOKEN"] = "value"
    /\ env["TELEGRAM_CHAT_ID"] = "value"
    /\ pc = "aborted"
    /\ exitStatus = 1
    /\ ~appBuilt

\* C7: every run of the scheduled job makes exactly one fetch attempt and
\* exactly one send attempt, whatever the outcomes.
C7_OneFetchOneSendPerRun ==
    \A i \in 1..Len(lastRuns) : lastRuns[i].fetches = 1 /\ lastRuns[i].sends = 1

C10_NothingLeavesTheJob ==
    \A i \in 1..Len(lastRuns) : lastRuns[i].escaped = "none"

====
